---- MODULE Spec2Model ----
(***************************************************************************)
(* Model of the upstream-proxy connection lifecycle engine (src/index.js,  *)
(* class UpstreamProxy, and the HttpMessageParser glue).                   *)
(*                                                                         *)
(* The specifications share the same actions:                              *)
(*   Spec        several client connections, the tracker and the control   *)
(*               surface; every client sends one chunk.                    *)
(*   PipeSpec    one client connection followed byte by byte through the   *)
(*               two parser streams of its pipeline, with interceptors.    *)
(*   CfgSpec     setConfig and the route resolution of first requests.     *)
(*   HeaderSpec  the header list of one head, parsed and serialized.       *)
(***************************************************************************)
EXTENDS Integers, Sequences, FiniteSets, TLC

\* ---------------------------------------------------------------- bounds
MaxConn  == 1      \* client sockets the server accepts
MaxChunk == 3      \* longest chunk a socket delivers in one 'data' event
MaxIcp   == 2      \* interceptors registered in the life of a server
MaxHdr   == 3      \* header lines of a message head

Clients == 1..MaxConn
\* The socket PipeSpec follows: the first one accepted.
PipeClient == CHOOSE c \in Clients : \A d \in Clients : c <= d

\* ------------------------------------------------------------ data model
\* Endpoint objects of the configuration ({host, port}).
EP1 == [host |-> "10.0.0.1", port |-> 9001]
EP2 == [host |-> "10.0.0.2", port |-> 9001]
NoRoute == [host |-> "undefined", port |-> 0]

\* Configurations handed to the constructor / setConfig.
ConfigAB == << [hostnames |-> <<"a.example">>, endpoint |-> EP1],
               [hostnames |-> <<"b.example">>, endpoint |-> EP2] >>
\* A wildcard entry first, then a.example.
ConfigStar == << [hostnames |-> <<"*">>, endpoint |-> EP2],
                 [hostnames |-> <<"a.example">>, endpoint |-> EP1] >>
Configs == {<< >>, ConfigAB, ConfigStar}
\* An array element that is null: reading obj.endpoint of it throws a
\* TypeError inside _generateRoutesMap.
NullEntry == [hostnames |-> <<"null">>, endpoint |-> NoRoute]
ConfigNull == << [hostnames |-> <<"a.example">>, endpoint |-> EP2], NullEntry >>
BadConfigs == {ConfigNull}

\* Arguments of disconnectClients.
HostArgs == {"a.example", "10.0.0.1"}

\* An element of a byte stream.  k says what the byte is to an HTTP parser:
\*   "h"  a byte inside a message head,
\*   "e"  the byte that completes a message head,
\*   "b"  a payload byte (body, or data of an upgraded protocol),
\*   "x"  a byte no HTTP grammar accepts in a head.
\* For "e": s is the status code (0 in a request), v the value of the host
\* header of a request or of the upgrade header of a response, n the number
\* of body bytes the head announces.  p is the position of the byte in its
\* stream, which makes every byte of a stream distinct.  via is used by
\* serialized heads only: the interceptors that have touched the message.
Byte(k, v, s, n, p) == [k |-> k, v |-> v, s |-> s, n |-> n, p |-> p, via |-> << >>]
\* The host header value of a request that has no host header.
NoHost == "(no host header)"
ReqEnd(host, n, p) == Byte("e", host, 0, n, p)
ResEnd(status, upg, n, p) == Byte("e", upg, status, n, p)
HeadB(p) == Byte("h", "", 0, 0, p)
BodyB(p) == Byte("b", "", 0, 0, p)
BadB(p)  == Byte("x", "", 0, 0, p)

Min(a, b) == IF a < b THEN a ELSE b

VARIABLES
  active,          \* this.active
  id,              \* this.id
  sockets,         \* this.sockets : id -> client socket
  host_headers,    \* this.host_headers : host -> set of ids
  routes,          \* this.routes : hostname -> endpoint
  config,          \* this.config
  callbacks,       \* TRUE iff this.callbacks[503] is set
  ret,             \* value returned by the last disconnect* call
  cstate,          \* client socket: "none", "open", "fin", "error"
  phase,           \* _handleConnection: "none", "refused", "await" (first chunk), "fed"
  cliOut,          \* what the proxy wrote to the client socket
  cliEnded,        \* socket.end() was called on the client socket
  bk,              \* backend socket: "none","dialing","connected","errored","closed"
  bkFin,           \* the backend socket emitted 'end'
  bkErrOnce,       \* the once('error') listener of the backend is still armed
  bkIn,            \* what the proxy wrote to the backend socket
  bkEnded,         \* backend.end() was called
  piped,           \* the 'connect' handler has run (listeners and pipes installed)
  symId,           \* socket[this.symId]
  symHostHeader,   \* socket[this.symHostHeader]
  message,         \* the first request captured by _handleRequest
  hostHeader,      \* host_header captured by _handleRequest
  cbCalls,         \* invocations of callbacks[503] : <<client, host>>
  reqHost,         \* hostname of the first request (history)
  torn,            \* a teardown event was handled for the installed pipeline (history)
  cin,             \* bytes the client has still to send
  bin,             \* bytes the backend has still to send
  sent,            \* sent[c] : bytes the client sent after its first chunk (history)
  protocol,        \* handler.protocol of the pipeline
  chunks,          \* chunks[c][d] : chunks buffered by the parser stream d
  prs,             \* prs[c][d] : state of the parser of the parser stream d
  crashed,         \* an exception left a listener uncaught: the process is gone
  setRet,          \* value returned by the last setConfig call
  requestInterceptors,   \* this.requestInterceptors
  responseInterceptors,  \* this.responseInterceptors
  rawHeaders,      \* HeaderSpec: the header list the parser hands over
  headLines        \* HeaderSpec: the header lines the serializer emits

srvVars  == <<active, id, sockets, host_headers, routes, config, callbacks, ret>>
cliVars  == <<cstate, phase, cliOut, cliEnded>>
bkVars   == <<bk, bkFin, bkErrOnce, bkIn, bkEnded>>
connVars == <<piped, symId, symHostHeader, message, hostHeader, cbCalls, reqHost, torn>>
flowVars == <<cin, bin, sent, protocol, chunks, prs>>
icpVars  == <<requestInterceptors, responseInterceptors>>
hdrVars  == <<rawHeaders, headLines>>
extVars  == <<crashed, setRet, icpVars, hdrVars>>
vars == <<srvVars, cliVars, bkVars, connVars, flowVars, extVars>>


\* ------------------------------------------------------- HttpMessageParser
\* State of one parser: rem body bytes still expected, err the parser has
\* failed, upg the parser stopped at an upgrade (101) head, pend the bytes of
\* the head it has consumed and not yet completed.
NewParser == [rem |-> 0, err |-> FALSE, upg |-> FALSE, pend |-> << >>]

\* kOnHeadersComplete: the message object handed to 'headers' listeners.
MessageOf(b) == [statusCode |-> b.s, hdr |-> b.v, n |-> b.n, p |-> b.p, via |-> << >>]

HeadersEv(b) == [t |-> "headers", m |-> MessageOf(b), offset |-> 0, length |-> 0]
\* kOnBody: (chunk, offset, length), offset counted from 0.
BodyEv(offset, length) ==
  [t |-> "body", m |-> MessageOf(BodyB(0)), offset |-> offset, length |-> length]

\* parser.execute(chunk, 0, chunk.length) from byte i on: the parser state
\* afterwards and the events emitted, in order.  r.ps.err says that execute
\* returned an Error.
RECURSIVE Execute(_, _, _, _)
Execute(ps, chunk, i, evs) ==
  IF ps.err \/ ps.upg \/ i > Len(chunk) THEN [ps |-> ps, evs |-> evs]
  ELSE IF ps.rem > 0
    THEN LET l == Min(ps.rem, Len(chunk) - i + 1)
         IN  Execute([ps EXCEPT !.rem = @ - l], chunk, i + l,
                     Append(evs, BodyEv(i - 1, l)))
  ELSE IF chunk[i].k = "h"
    THEN Execute([ps EXCEPT !.pend = Append(@, chunk[i])], chunk, i + 1, evs)
  ELSE IF chunk[i].k = "e"
    THEN Execute([ps EXCEPT !.rem = chunk[i].n, !.upg = (chunk[i].s = 101),
                            !.pend = << >>],
                 chunk, i + 1, Append(evs, HeadersEv(chunk[i])))
  ELSE [ps |-> [ps EXCEPT !.err = TRUE], evs |-> evs]

\* ------------------------------------------------------------ serializers
\* _httpResponse(nr): the status line the proxy writes itself.
StatusCodes == {400, 404, 500, 502, 503}
_httpResponse(nr) ==
  IF nr \in StatusCodes THEN Byte("STATUS", "", nr, 0, 0)
  ELSE Byte("STATUS", "", 500, 0, 0)

\* _makeBufferFromHttpMessage(message): the serialized head, one buffer.
_makeBufferFromHttpMessage(m) ==
  [Byte("HEAD", m.hdr, m.statusCode, m.n, m.p) EXCEPT !.via = m.via]

\* for (var fn of list) fn(message): every interceptor gets the same message
\* object and leaves its mark on it.
RECURSIVE ApplyAll(_, _)
ApplyAll(fns, m) ==
  IF fns = << >> THEN m
  ELSE ApplyAll(Tail(fns), [m EXCEPT !.via = Append(@, Head(fns))])

_handleRequestInterceptors(m) == ApplyAll(requestInterceptors, m)
\* _handleResponseInterceptors reading the list of the other side.
_handleResponseInterceptors_Swapped(m) == ApplyAll(requestInterceptors, m)
_handleResponseInterceptors(m) == ApplyAll(responseInterceptors, m)

\* ------------------------------------------------------------ route table
\* String.split(':')[0] on the host header values of the model.
SplitHost(v) == IF v = "a.example:8080" THEN "a.example" ELSE v

\* _generateRoutesMap(config): later entries overwrite earlier ones.
RECURSIVE HostsToRoutes(_, _, _)
HostsToRoutes(r, hosts, ep) ==
  IF hosts = <<>> THEN r
  ELSE LET h == Head(hosts)
       IN  HostsToRoutes([x \in DOMAIN r \cup {h} |-> IF x = h THEN ep ELSE r[x]],
                         Tail(hosts), ep)

RECURSIVE _generateRoutesMap(_)
_generateRoutesMap(cfg) ==
  IF cfg = <<>> THEN << >>
  ELSE LET n   == Len(cfg)
           pre == _generateRoutesMap(SubSeq(cfg, 1, n - 1))
       IN  HostsToRoutes(pre, cfg[n].hostnames, cfg[n].endpoint)

\* _generateRoutesMap(config) throws.
Throws(cfg) == \E i \in DOMAIN cfg : cfg[i] = NullEntry

\* message.headers.host.split(':') of the default routeResolver throws a
\* TypeError when the request has no host header.
ResolverThrows(m) == m.hdr = NoHost

\* The default routeResolver; NoRoute stands for undefined.
routeResolver(m) ==
  LET h == SplitHost(m.hdr)
  IN  IF h \in DOMAIN routes THEN routes[h]
      ELSE IF "*" \in DOMAIN routes THEN routes["*"]
      ELSE NoRoute

\* --------------------------------------------------- _makeHttpParserStream
Dirs == {"request", "response"}
NoChunks == [d \in Dirs |-> << >>]
NewParsers == [d \in Dirs |-> NewParser]

RECURSIVE Concat(_)
Concat(cs) == IF cs = << >> THEN << >> ELSE Head(cs) \o Concat(Tail(cs))

\* State of one parser stream while a chunk is handled: its chunk list, the
\* shared handler.protocol and what ts.push has emitted so far.
TsState(cs, proto) == [chunks |-> cs, protocol |-> proto, out |-> << >>]

interceptorMethod(type, m) ==
  IF type = "request" THEN _handleRequestInterceptors(m)
  ELSE _handleResponseInterceptors(m)

\* parser.on('headers', ...)
OnHeaders(type, st, m) ==
  [chunks   |-> << >>,
   out      |-> Append(st.out, _makeBufferFromHttpMessage(interceptorMethod(type, m))),
   protocol |-> IF m.statusCode = 101 THEN m.hdr ELSE st.protocol]

\* parser.on('body', ...): buffer.slice(offset), or the buffer when offset is 0.
OnBody(st, buffer, offset, length) ==
  [st EXCEPT !.chunks = << >>,
             !.out = @ \o SubSeq(buffer, offset + 1, Len(buffer))]

\* ts._flush
_flush(st) ==
  IF st.chunks # << >>
  THEN [st EXCEPT !.out = @ \o Concat(st.chunks), !.chunks = << >>]
  ELSE st

RECURSIVE Dispatch(_, _, _, _)
Dispatch(type, st, evs, chunk) ==
  IF evs = << >> THEN st
  ELSE LET e == Head(evs)
           nx == IF e.t = "headers" THEN OnHeaders(type, st, e.m)
                 ELSE OnBody(st, chunk, e.offset, e.length)
       IN  Dispatch(type, nx, Tail(evs), chunk)

\* ts._transform(chunk): the stream state afterwards and the parser state.
_transform(type, cs, ps, proto, chunk) ==
  IF proto = "http"
  THEN LET r  == Execute(ps, chunk, 1, << >>)
           s1 == Dispatch(type, TsState(cs, proto), r.evs, chunk)
           s2 == IF r.ps.err THEN _flush(s1) ELSE s1
       IN  [st |-> [s2 EXCEPT !.chunks = Append(@, chunk)], ps |-> r.ps]
  ELSE [st |-> [TsState(cs, proto) EXCEPT !.out = chunk], ps |-> ps]

\* ------------------------------------------------------------- the tracker
AllIds == UNION {host_headers[h] : h \in DOMAIN host_headers}

\* _addConnection(socket, host_header): the two indices afterwards.
AddHost(hh, h, i) ==
  [x \in DOMAIN hh \cup {h} |->
     IF x = h THEN (IF h \in DOMAIN hh THEN hh[h] ELSE {}) \cup {i}
     ELSE hh[x]]
AddSocket(ss, i, c) == [x \in DOMAIN ss \cup {i} |-> IF x = i THEN c ELSE ss[x]]

\* Map.delete
DelSockets(ss, ids) == [x \in DOMAIN ss \ ids |-> ss[x]]
DelHost(hh, h, i) == [hh EXCEPT ![h] = @ \ {i}]

\* _removeConnection(socket, backend)
_removeConnection(c) ==
  /\ host_headers' = DelHost(host_headers, symHostHeader[c], symId[c])
  /\ sockets' = DelSockets(sockets, {symId[c]})
  /\ cliEnded' = [cliEnded EXCEPT ![c] = TRUE]
  /\ bkEnded' = [bkEnded EXCEPT ![c] = TRUE]

\* socket.end(data): the data is written unless the socket was ended before.
EndWith(out, ended, c, data) ==
  IF ended[c] THEN out ELSE [out EXCEPT ![c] = Append(@, data)]
\* socket.write through a pipe
WriteTo(out, ended, c, data) ==
  IF ended[c] THEN out ELSE [out EXCEPT ![c] = @ \o data]

\* ------------------------------------------------------------------- Init
\* The state after new UpstreamProxy(config, callbacks); no socket accepted.
Construct(cfg, cb) ==
  /\ active = FALSE
  /\ id = 0
  /\ sockets = << >>
  /\ host_headers = << >>
  /\ config = cfg
  /\ routes = _generateRoutesMap(cfg)
  /\ callbacks = cb
  /\ ret = 0
  /\ cstate = [c \in Clients |-> "none"]
  /\ phase = [c \in Clients |-> "none"]
  /\ cliOut = [c \in Clients |-> << >>]
  /\ cliEnded = [c \in Clients |-> FALSE]
  /\ bk = [c \in Clients |-> "none"]
  /\ bkFin = [c \in Clients |-> FALSE]
  /\ bkErrOnce = [c \in Clients |-> FALSE]
  /\ bkIn = [c \in Clients |-> << >>]
  /\ bkEnded = [c \in Clients |-> FALSE]
  /\ piped = [c \in Clients |-> FALSE]
  /\ symId = [c \in Clients |-> 0]
  /\ symHostHeader = [c \in Clients |-> "undefined"]
  /\ message = [c \in Clients |-> MessageOf(BadB(0))]
  /\ hostHeader = [c \in Clients |-> "*"]
  /\ cbCalls = [c \in Clients |-> << >>]
  /\ reqHost = [c \in Clients |-> ""]
  /\ torn = [c \in Clients |-> FALSE]
  /\ sent = [c \in Clients |-> << >>]
  /\ protocol = [c \in Clients |-> "http"]
  /\ chunks = [c \in Clients |-> NoChunks]
  /\ prs = [c \in Clients |-> NewParsers]
  /\ crashed = FALSE
  /\ setRet = ""
  /\ requestInterceptors = << >>
  /\ responseInterceptors = << >>
  /\ headLines = << >>

\* First chunks of the clients of Spec: a complete head for a routed host,
\* one for a host without route, an incomplete head, a malformed chunk, and
\* complete heads (with and without route) followed by bytes the parser
\* rejects.
FirstChunks ==
  { <<ReqEnd("a.example", 0, 1)>>,
    <<ReqEnd("c.example", 0, 1)>>, <<HeadB(1)>>, <<BadB(1)>>,
    <<ReqEnd("b.example", 0, 1), BadB(2)>>,
    <<ReqEnd("c.example", 0, 1), BadB(2)>> }

Init ==
  /\ Construct(ConfigAB, FALSE)
  /\ cin = << >>
  /\ bin = << >>
  /\ rawHeaders = << >>

\* ------------------------------------------------------ _handleConnection
\* Accept without the test of this.active: every socket gets a parser.
Accept_NoActiveTest(c) ==
  /\ ~crashed
  /\ cstate[c] = "none"
  /\ \A d \in Clients : d < c => cstate[d] # "none"
  /\ cstate' = [cstate EXCEPT ![c] = "open"]
  /\ phase' = [phase EXCEPT ![c] = "await"]
  /\ UNCHANGED <<cliOut, cliEnded>>
  /\ UNCHANGED <<srvVars, bkVars, connVars, flowVars>>
  /\ UNCHANGED extVars

\* net.createServer callback
Accept(c) ==
  /\ ~crashed
  /\ cstate[c] = "none"
  /\ \A d \in Clients : d < c => cstate[d] # "none"
  /\ cstate' = [cstate EXCEPT ![c] = "open"]
  /\ IF ~active
     THEN /\ phase' = [phase EXCEPT ![c] = "refused"]
          /\ cliOut' = EndWith(cliOut, cliEnded, c, _httpResponse(503))
          /\ cliEnded' = [cliEnded EXCEPT ![c] = TRUE]
     ELSE /\ phase' = [phase EXCEPT ![c] = "await"]
          /\ UNCHANGED <<cliOut, cliEnded>>
  /\ UNCHANGED <<srvVars, bkVars, connVars, flowVars>>
  /\ UNCHANGED extVars

\* The no-route branch answering 400 in place of 404.
NoRouteReply_400(out, ended, c) == EndWith(out, ended, c, _httpResponse(400))
\* _handleRequest without a route: socket.end(this._httpResponse(404)).
NoRouteReply(out, ended, c) == EndWith(out, ended, c, _httpResponse(404))

\* The 'headers' events of a list of parser events.
HeadersOf(evs) == SelectSeq(evs, LAMBDA e : e.t = "headers")

\* socket.once('data'): the first chunk is fed to the request parser;
\* parser.once('headers') runs _handleRequest, a parse error answers 400.
\* An exception of the route resolver leaves the 'headers' listener, the
\* parser and the 'data' listener: nothing catches it.
FirstChunk(c, chunk) ==
  /\ ~crashed
  /\ cstate[c] = "open"
  /\ phase[c] = "await"
  /\ phase' = [phase EXCEPT ![c] = "fed"]
  /\ LET r     == Execute(NewParser, chunk, 1, << >>)
         hs    == HeadersOf(r.evs)
         m     == hs[1].m
         thr   == hs # << >> /\ ResolverThrows(m)
         route == routeResolver(m)
         dial  == hs # << >> /\ ~thr /\ route # NoRoute
         none  == hs # << >> /\ ~thr /\ route = NoRoute
         out1  == IF none THEN NoRouteReply(cliOut, cliEnded, c) ELSE cliOut
         end1  == IF none THEN [cliEnded EXCEPT ![c] = TRUE] ELSE cliEnded
     IN  /\ crashed' = thr
         /\ message' = [message EXCEPT ![c] = IF hs # << >> THEN m ELSE @]
         /\ IF dial
            THEN /\ hostHeader' = [hostHeader EXCEPT ![c] = route.host]
                 /\ bk' = [bk EXCEPT ![c] = "dialing"]
                 /\ bkErrOnce' = [bkErrOnce EXCEPT ![c] = TRUE]
            ELSE UNCHANGED <<hostHeader, bk, bkErrOnce>>
         /\ reqHost' = [reqHost EXCEPT ![c] =
                          IF hs # << >> /\ ~thr THEN SplitHost(m.hdr) ELSE @]
         /\ IF r.ps.err /\ ~thr
            THEN /\ cliOut' = EndWith(out1, end1, c, _httpResponse(400))
                 /\ cliEnded' = [cliEnded EXCEPT ![c] = TRUE]
            ELSE /\ cliOut' = out1
                 /\ cliEnded' = end1
  /\ UNCHANGED <<setRet, icpVars, hdrVars>>
  /\ UNCHANGED <<srvVars, cstate, bkFin, bkIn, bkEnded>>
  /\ UNCHANGED <<piped, symId, symHostHeader, cbCalls, torn, sent, protocol, chunks, prs>>

\* A later 'data' event of the client socket: piped into the request parser
\* stream once the pipeline is installed; before that the socket flows with
\* no 'data' listener and the chunk is discarded.
ClientChunk(c, chunk) ==
  /\ ~crashed
  /\ cstate[c] = "open"
  /\ phase[c] = "fed"
  /\ IF piped[c]
     THEN LET r == _transform("request", chunks[c]["request"], prs[c]["request"],
                              protocol[c], chunk)
          IN  /\ chunks' = [chunks EXCEPT ![c]["request"] = r.st.chunks]
              /\ prs' = [prs EXCEPT ![c]["request"] = r.ps]
              /\ protocol' = [protocol EXCEPT ![c] = r.st.protocol]
              /\ bkIn' = WriteTo(bkIn, bkEnded, c, r.st.out)
     ELSE UNCHANGED <<chunks, prs, protocol, bkIn>>
  /\ sent' = [sent EXCEPT ![c] = @ \o chunk]
  /\ UNCHANGED <<srvVars, cliVars, bk, bkFin, bkErrOnce, bkEnded, connVars>>
  /\ UNCHANGED extVars

\* 'end' of the client socket (the client closed its side): the pipe ends the
\* request parser stream, which flushes and ends the backend socket.  The
\* socket is not allowHalfOpen, so its writable side is ended as well.
ClientEnd(c) ==
  /\ ~crashed
  /\ cstate[c] = "open"
  /\ phase[c] \in {"await", "fed"}
  /\ cstate' = [cstate EXCEPT ![c] = "fin"]
  /\ cliEnded' = [cliEnded EXCEPT ![c] = TRUE]
  /\ IF piped[c]
     THEN LET st == _flush(TsState(chunks[c]["request"], protocol[c]))
          IN  /\ chunks' = [chunks EXCEPT ![c]["request"] = st.chunks]
              /\ bkIn' = WriteTo(bkIn, bkEnded, c, st.out)
              /\ bkEnded' = [bkEnded EXCEPT ![c] = TRUE]
              /\ torn' = [torn EXCEPT ![c] = TRUE]
     ELSE UNCHANGED <<chunks, bkIn, bkEnded, torn>>
  /\ UNCHANGED <<srvVars, phase, cliOut, bk, bkFin, bkErrOnce>>
  /\ UNCHANGED <<piped, symId, symHostHeader, message, hostHeader, cbCalls, reqHost>>
  /\ UNCHANGED <<cin, bin, sent, protocol, prs>>
  /\ UNCHANGED extVars

\* 'error' of the client socket: socket.once('error') of _handleConnection
\* ends the socket; after connect socket.on('error') runs _removeConnection.
ClientError(c) ==
  /\ ~crashed
  /\ cstate[c] \in {"open", "fin", "error"}
  /\ phase[c] \in {"await", "fed"}
  /\ cstate' = [cstate EXCEPT ![c] = "error"]
  /\ IF piped[c]
     THEN /\ _removeConnection(c)
          /\ torn' = [torn EXCEPT ![c] = TRUE]
     ELSE /\ cliEnded' = [cliEnded EXCEPT ![c] = TRUE]
          /\ UNCHANGED <<host_headers, sockets, bkEnded, torn>>
  /\ UNCHANGED <<active, id, routes, config, callbacks, ret>>
  /\ UNCHANGED <<phase, cliOut, bk, bkFin, bkErrOnce, bkIn>>
  /\ UNCHANGED <<piped, symId, symHostHeader, message, hostHeader, cbCalls, reqHost>>
  /\ UNCHANGED flowVars
  /\ UNCHANGED extVars

\* --------------------------------------------------------- _handleRequest
\* backend.on('connect'): _addConnection, teardown listeners, the first
\* request head is written to the backend and the pipeline is installed.
\* pipe() on a client socket that has emitted 'end' ends its destination on
\* the next tick, and with it the backend socket; a socket destroyed by an
\* error has emitted no 'end'.
Connect(c) ==
  /\ ~crashed
  /\ bk[c] = "dialing"
  /\ bk' = [bk EXCEPT ![c] = "connected"]
  /\ id' = id + 1
  /\ symId' = [symId EXCEPT ![c] = id + 1]
  /\ symHostHeader' = [symHostHeader EXCEPT ![c] = hostHeader[c]]
  /\ host_headers' = AddHost(host_headers, hostHeader[c], id + 1)
  /\ sockets' = AddSocket(sockets, id + 1, c)
  /\ piped' = [piped EXCEPT ![c] = TRUE]
  /\ bkIn' = WriteTo(bkIn, bkEnded, c,
               <<_makeBufferFromHttpMessage(_handleRequestInterceptors(message[c]))>>)
  /\ bkEnded' = [bkEnded EXCEPT ![c] = (cstate[c] = "fin")]
  /\ protocol' = [protocol EXCEPT ![c] = "http"]
  /\ chunks' = [chunks EXCEPT ![c] = NoChunks]
  /\ prs' = [prs EXCEPT ![c] = NewParsers]
  /\ UNCHANGED <<active, routes, config, callbacks, ret, cliVars>>
  /\ UNCHANGED <<bkFin, bkErrOnce, message, hostHeader, cbCalls, reqHost, torn>>
  /\ UNCHANGED <<cin, bin, sent>>
  /\ UNCHANGED extVars

\* BackendError with the else of the callback test dropped: the callback is
\* called and the 503 status line is written as well.
BackendError_FallThrough(c) ==
  /\ ~crashed
  /\ bk[c] \in {"dialing", "connected"}
  /\ bkErrOnce[c]
  /\ bkErrOnce' = [bkErrOnce EXCEPT ![c] = FALSE]
  /\ bk' = [bk EXCEPT ![c] = "errored"]
  /\ cbCalls' = [cbCalls EXCEPT ![c] =
                   IF callbacks THEN Append(@, <<c, hostHeader[c]>>) ELSE @]
  /\ cliOut' = EndWith(cliOut, cliEnded, c, _httpResponse(503))
  /\ cliEnded' = [cliEnded EXCEPT ![c] = TRUE]
  /\ UNCHANGED <<srvVars, cstate, phase, bkFin, bkIn, bkEnded, torn>>
  /\ UNCHANGED <<piped, symId, symHostHeader, message, hostHeader, reqHost, flowVars>>
  /\ UNCHANGED extVars

\* backend.once('error'): the listener is installed before the dial and is
\* still installed after connect.
BackendError(c) ==
  /\ ~crashed
  /\ bk[c] \in {"dialing", "connected"}
  /\ bkErrOnce[c]
  /\ bkErrOnce' = [bkErrOnce EXCEPT ![c] = FALSE]
  /\ bk' = [bk EXCEPT ![c] = "errored"]
  /\ IF callbacks
     THEN /\ cbCalls' = [cbCalls EXCEPT ![c] = Append(@, <<c, hostHeader[c]>>)]
          /\ UNCHANGED <<cliOut, cliEnded>>
     ELSE /\ cliOut' = EndWith(cliOut, cliEnded, c, _httpResponse(503))
          /\ cliEnded' = [cliEnded EXCEPT ![c] = TRUE]
          /\ UNCHANGED cbCalls
  /\ UNCHANGED <<srvVars, cstate, phase, bkFin, bkIn, bkEnded, torn>>
  /\ UNCHANGED <<piped, symId, symHostHeader, message, hostHeader, reqHost, flowVars>>
  /\ UNCHANGED extVars

\* A 'data' event of the backend socket, piped into the response parser stream
\* and from there into the client socket.
BackendChunk(c, chunk) ==
  /\ ~crashed
  /\ bk[c] = "connected"
  /\ ~bkFin[c]
  /\ LET r == _transform("response", chunks[c]["response"], prs[c]["response"],
                         protocol[c], chunk)
     IN  /\ chunks' = [chunks EXCEPT ![c]["response"] = r.st.chunks]
         /\ prs' = [prs EXCEPT ![c]["response"] = r.ps]
         /\ protocol' = [protocol EXCEPT ![c] = r.st.protocol]
         /\ cliOut' = WriteTo(cliOut, cliEnded, c, r.st.out)
  /\ UNCHANGED <<srvVars, cstate, phase, cliEnded, bkVars, connVars, sent>>
  /\ UNCHANGED extVars

\* 'end' of the backend socket: the pipe ends the response parser stream,
\* which flushes and ends the client socket; the backend socket is not
\* allowHalfOpen, so its writable side is ended as well.
BackendEnd(c) ==
  /\ ~crashed
  /\ bk[c] = "connected"
  /\ ~bkFin[c]
  /\ bkFin' = [bkFin EXCEPT ![c] = TRUE]
  /\ LET st == _flush(TsState(chunks[c]["response"], protocol[c]))
     IN  /\ chunks' = [chunks EXCEPT ![c]["response"] = st.chunks]
         /\ cliOut' = WriteTo(cliOut, cliEnded, c, st.out)
  /\ cliEnded' = [cliEnded EXCEPT ![c] = TRUE]
  /\ bkEnded' = [bkEnded EXCEPT ![c] = TRUE]
  /\ UNCHANGED <<srvVars, cstate, phase, bk, bkErrOnce, bkIn, connVars>>
  /\ UNCHANGED <<cin, bin, sent, protocol, prs>>
  /\ UNCHANGED extVars

\* 'close' of the backend socket, after its 'end' or after destroy():
\* backend.on('close') exists only when the connect handler has run.
BackendClose(c) ==
  /\ ~crashed
  /\ \/ bk[c] = "connected" /\ bkFin[c]
     \/ bk[c] = "errored"
  /\ bk' = [bk EXCEPT ![c] = "closed"]
  /\ IF piped[c]
     THEN /\ _removeConnection(c)
          /\ torn' = [torn EXCEPT ![c] = TRUE]
     ELSE UNCHANGED <<host_headers, sockets, cliEnded, bkEnded, torn>>
  /\ UNCHANGED <<active, id, routes, config, callbacks, ret>>
  /\ UNCHANGED <<cstate, phase, cliOut, bkFin, bkErrOnce, bkIn>>
  /\ UNCHANGED <<piped, symId, symHostHeader, message, hostHeader, cbCalls, reqHost>>
  /\ UNCHANGED flowVars
  /\ UNCHANGED extVars

\* -------------------------------------------------------- control surface
Start ==
  /\ ~crashed
  /\ active' = TRUE
  /\ UNCHANGED <<id, sockets, host_headers, routes, config, callbacks, ret>>
  /\ UNCHANGED <<cliVars, bkVars, connVars, flowVars>>
  /\ UNCHANGED extVars

\* A stop that also ends the client socket of every tracked connection.
Stop_DropsFlows ==
  /\ ~crashed
  /\ active' = FALSE
  /\ cliEnded' = [c \in Clients |-> cliEnded[c] \/ symId[c] \in DOMAIN sockets]
  /\ UNCHANGED <<id, sockets, host_headers, routes, config, callbacks, ret>>
  /\ UNCHANGED <<cstate, phase, cliOut, bkVars, connVars, flowVars>>
  /\ UNCHANGED extVars

\* stop()
Stop ==
  /\ ~crashed
  /\ active' = FALSE
  /\ UNCHANGED <<id, sockets, host_headers, routes, config, callbacks, ret>>
  /\ UNCHANGED <<cliVars, bkVars, connVars, flowVars>>
  /\ UNCHANGED extVars

\* setConfig(config): this.config is assigned before _generateRoutesMap
\* runs inside the try; the catch returns the error string.
SetConfig(cfg) ==
  /\ ~crashed
  /\ config' = cfg
  /\ IF Throws(cfg)
     THEN /\ setRet' = "ERROR"
          /\ UNCHANGED routes
     ELSE /\ setRet' = "OK"
          /\ routes' = _generateRoutesMap(cfg)
  /\ UNCHANGED <<active, id, sockets, host_headers, callbacks, ret>>
  /\ UNCHANGED <<cliVars, bkVars, connVars, flowVars>>
  /\ UNCHANGED <<crashed, icpVars, hdrVars>>

SetCallbacks(cb) ==
  /\ ~crashed
  /\ callbacks' = cb
  /\ UNCHANGED <<active, id, sockets, host_headers, routes, config, ret>>
  /\ UNCHANGED <<cliVars, bkVars, connVars, flowVars>>
  /\ UNCHANGED extVars

\* _closeFrontendConnections(list_of_ids): an id without a socket makes
\* sockets.get(id).end() throw, which skips the id.
_closeFrontendConnections(ids) ==
  LET found == ids \cap DOMAIN sockets
      socks == {sockets[i] : i \in found}
  IN  /\ cliEnded' = [c \in Clients |-> cliEnded[c] \/ c \in socks]
      /\ sockets' = DelSockets(sockets, found)
      /\ ret' = Cardinality(found)
      /\ torn' = [c \in Clients |-> torn[c] \/ c \in socks]

\* disconnectClients(host): host_headers[host] undefined throws, returns 0.
DisconnectClients(host) ==
  /\ ~crashed
  /\ IF host \in DOMAIN host_headers
     THEN _closeFrontendConnections(host_headers[host])
     ELSE /\ ret' = 0
          /\ UNCHANGED <<cliEnded, sockets, torn>>
  /\ UNCHANGED <<active, id, host_headers, routes, config, callbacks>>
  /\ UNCHANGED <<cstate, phase, cliOut, bkVars>>
  /\ UNCHANGED <<piped, symId, symHostHeader, message, hostHeader, cbCalls, reqHost>>
  /\ UNCHANGED flowVars
  /\ UNCHANGED extVars

DisconnectAllClients ==
  /\ ~crashed
  /\ _closeFrontendConnections(DOMAIN sockets)
  /\ UNCHANGED <<active, id, host_headers, routes, config, callbacks>>
  /\ UNCHANGED <<cstate, phase, cliOut, bkVars>>
  /\ UNCHANGED <<piped, symId, symHostHeader, message, hostHeader, cbCalls, reqHost>>
  /\ UNCHANGED flowVars
  /\ UNCHANGED extVars

\* ------------------------------------------------------------------- Spec
ClientFirst(c) ==
  \E chunk \in FirstChunks : FirstChunk(c, chunk) /\ UNCHANGED <<cin, bin>>

Next ==
  \/ Start
  \/ Stop
  \/ \E cb \in BOOLEAN : SetCallbacks(cb)
  \/ \E h \in HostArgs : DisconnectClients(h)
  \/ DisconnectAllClients
  \/ \E c \in Clients : Accept(c)
  \/ \E c \in Clients : ClientFirst(c)
  \/ \E c \in Clients : ClientEnd(c)
  \/ \E c \in Clients : ClientError(c)
  \/ \E c \in Clients : Connect(c)
  \/ \E c \in Clients : BackendError(c)
  \/ \E c \in Clients : BackendEnd(c)
  \/ \E c \in Clients : BackendClose(c)

Spec == Init /\ [][Next]_vars

\* --------------------------------------------------------------- PipeSpec
\* One client connection whose two byte streams are followed through the
\* pipeline.  The client stream starts with the first request.
ClientStreams ==
  { <<HeadB(1), ReqEnd("a.example", 0, 2), HeadB(3), ReqEnd("a.example", 2, 4),
      BodyB(5), BodyB(6)>>,
    <<ReqEnd("a.example", 0, 1), BodyB(2), BodyB(3)>> }

BackendStreams ==
  { <<ResEnd(200, "", 2, 1), BodyB(2), BodyB(3), ResEnd(200, "", 1, 4), BodyB(5)>>,
    <<HeadB(1), ResEnd(101, "websocket", 0, 2), BodyB(3)>> }

PipeInit ==
  /\ Construct(ConfigAB, FALSE)
  /\ cin \in ClientStreams
  /\ bin \in BackendStreams
  /\ rawHeaders = << >>

Take(s, n) == SubSeq(s, 1, n)
Drop(s, n) == SubSeq(s, n + 1, Len(s))
ChunkLens(s) == 1..Min(MaxChunk, Len(s))

PipeFirst ==
  \E n \in ChunkLens(cin) :
    /\ FirstChunk(PipeClient, Take(cin, n))
    /\ cin' = Drop(cin, n)
    /\ UNCHANGED bin

PipeClientData ==
  \E n \in ChunkLens(cin) :
    /\ ClientChunk(PipeClient, Take(cin, n))
    /\ cin' = Drop(cin, n)
    /\ UNCHANGED bin

PipeBackendData ==
  \E n \in ChunkLens(bin) :
    /\ BackendChunk(PipeClient, Take(bin, n))
    /\ bin' = Drop(bin, n)
    /\ UNCHANGED cin

PipeClientEnd == cin = << >> /\ ClientEnd(PipeClient)
PipeBackendEnd == bin = << >> /\ BackendEnd(PipeClient)

\* addRequestInterceptor(fn) / addResponseInterceptor(fn): fn is a function
\* not registered before, named by the number of its registration.
Registered == Len(requestInterceptors) + Len(responseInterceptors)

AddRequestInterceptor ==
  /\ ~crashed
  /\ Registered < MaxIcp
  /\ requestInterceptors' = Append(requestInterceptors, Registered + 1)
  /\ UNCHANGED <<srvVars, cliVars, bkVars, connVars, flowVars>>
  /\ UNCHANGED <<crashed, setRet, responseInterceptors, hdrVars>>

AddResponseInterceptor ==
  /\ ~crashed
  /\ Registered < MaxIcp
  /\ responseInterceptors' = Append(responseInterceptors, Registered + 1)
  /\ UNCHANGED <<srvVars, cliVars, bkVars, connVars, flowVars>>
  /\ UNCHANGED <<crashed, setRet, requestInterceptors, hdrVars>>

PipeNext ==
  \/ Start
  \/ AddRequestInterceptor
  \/ AddResponseInterceptor
  \/ Accept(PipeClient)
  \/ PipeFirst
  \/ Connect(PipeClient)
  \/ PipeClientData
  \/ PipeBackendData
  \/ PipeClientEnd
  \/ PipeBackendEnd
  \/ BackendClose(PipeClient)

PipeSpec == PipeInit /\ [][PipeNext]_vars

\* ---------------------------------------------------------------- CfgSpec
\* Reconfiguration at run time and the route resolution of first requests.
CfgChunks ==
  { <<ReqEnd("a.example", 0, 1)>>, <<ReqEnd("a.example:8080", 0, 1)>>,
    <<ReqEnd("c.example", 0, 1)>>, <<ReqEnd(NoHost, 0, 1)>> }

CfgFirst(c) ==
  \E chunk \in CfgChunks : FirstChunk(c, chunk) /\ UNCHANGED <<cin, bin>>

CfgNext ==
  \/ Start
  \/ Stop
  \/ \E cfg \in Configs \cup BadConfigs : SetConfig(cfg)
  \/ \E c \in Clients : Accept(c)
  \/ \E c \in Clients : CfgFirst(c)
  \/ \E c \in Clients : Connect(c)
  \/ \E c \in Clients : BackendError(c)

CfgSpec == Init /\ [][CfgNext]_vars

\* ------------------------------------------------------------- HeaderSpec
\* The header list of one message head, from the flat [name, value, ...]
\* array of kOnHeadersComplete to the header lines of the serialized head.
HeaderNames == {"Host", "Set-Cookie", "set-cookie"}
HeaderValues == {"1", "2"}
\* String.toLowerCase on the header names of the model.
toLowerCase(name) ==
  CASE name = "Host" -> "host"
    [] name = "Set-Cookie" -> "set-cookie"
    [] OTHER -> name

\* message.headers[key] = value on an object whose keys are kept in the
\* order of their first assignment.
SetKey(obj, key, value) ==
  IF \E i \in DOMAIN obj : obj[i].key = key
  THEN [i \in DOMAIN obj |-> IF obj[i].key = key THEN [obj[i] EXCEPT !.value = value]
                              ELSE obj[i]]
  ELSE Append(obj, [key |-> key, value |-> value])

\* kOnHeadersComplete: message.headers built from the header list.
RECURSIVE HeadersObject(_)
HeadersObject(hs) ==
  IF hs = << >> THEN << >>
  ELSE LET n == Len(hs)
       IN  SetKey(HeadersObject(SubSeq(hs, 1, n - 1)), toLowerCase(hs[n].name), hs[n].value)

\* _makeBufferFromHttpMessage: one line per key of message.headers.
HeaderLines(obj) == [i \in DOMAIN obj |-> obj[i].key \o ": " \o obj[i].value]

HeaderLists ==
  UNION { [1..n -> [name : HeaderNames, value : HeaderValues]] : n \in 0..MaxHdr }

HeaderInit ==
  /\ Construct(ConfigAB, FALSE)
  /\ cin = << >>
  /\ bin = << >>
  /\ rawHeaders \in HeaderLists

\* One head parsed and serialized again, no interceptor registered.
FrameHead ==
  /\ rawHeaders # << >>
  /\ headLines = << >>
  /\ headLines' = HeaderLines(HeadersObject(rawHeaders))
  /\ UNCHANGED <<srvVars, cliVars, bkVars, connVars, flowVars>>
  /\ UNCHANGED <<crashed, setRet, icpVars, rawHeaders>>

HeaderNext == FrameHead

HeaderSpec == HeaderInit /\ [][HeaderNext]_vars

\* ================================================================ claims
InFlat(c) == symId[c] \in DOMAIN sockets
InHost(c) == symId[c] \in AllIds
HostsOf(i) == {h \in DOMAIN host_headers : i \in host_headers[h]}

\* C1 (tracker consistency): in every reachable state the flat id -> socket
\* map and the per-host id sets hold exactly the same connection ids, and
\* every id is under exactly one host.
C1_TrackerConsistency ==
  /\ DOMAIN sockets = AllIds
  /\ \A i \in AllIds : Cardinality(HostsOf(i)) = 1

\* Live connections whose first request named the virtual host h.
LiveUnder(h) == {c \in Clients : piped[c] /\ InFlat(c) /\ reqHost[c] = h}

\* C2 (bulk disconnect by virtual host): disconnectClients(h) returns the
\* number of live connections routed under the virtual hostname h, ends
\* exactly their client sockets, and leaves only connections of other hosts
\* in the tracker.
C2_BulkDisconnect ==
  [][\A h \in HostArgs :
       DisconnectClients(h) =>
         /\ ret' = Cardinality(LiveUnder(h))
         /\ \A c \in Clients : (cliEnded'[c] /\ ~cliEnded[c]) => c \in LiveUnder(h)
         /\ \A c \in LiveUnder(h) : cliEnded'[c]
         /\ \A c \in Clients :
              (symId[c] \in DOMAIN sockets' \/ symId[c] \in AllIds') => reqHost[c] # h
    ]_vars

\* C6 (record lifecycle): a connection is in the tracker only after its
\* backend dial succeeded, and it is in neither index once a client error,
\* a client close, a backend close (also the one that follows a backend
\* error) or a forced disconnect has been handled for it.
C6_RecordLifecycle ==
  \A c \in Clients :
    /\ (InFlat(c) \/ InHost(c)) => piped[c]
    /\ torn[c] => (~InFlat(c) /\ ~InHost(c))

\* A step that handles a teardown event of connection c.
TeardownStep(c) ==
  \/ ClientError(c)
  \/ BackendClose(c)
  \/ InFlat(c) /\ ~(symId[c] \in DOMAIN sockets')

\* C7 (idempotent teardown): a teardown event for a connection that was
\* already torn down leaves both tracker indices as they are, and the first
\* one removes the record of that connection only.
C7_IdempotentTeardown ==
  [][\A c \in Clients :
       (piped[c] /\ TeardownStep(c)) =>
         /\ torn[c] => (sockets' = sockets /\ host_headers' = host_headers)
         /\ \A d \in Clients \ {c} :
              /\ InFlat(d) => symId[d] \in DOMAIN sockets'
              /\ InHost(d) => symId[d] \in AllIds'
    ]_vars

IsStatus(x) == x.k = "STATUS"

\* C8 (peer reset mid-stream): once the pipeline of a connection is
\* installed, the proxy writes no status line to its client and calls no
\* user callback for it; a client error or a backend close ends both sockets.
C8_PeerReset ==
  [][\A c \in Clients :
       piped[c] =>
         /\ Len(SelectSeq(cliOut'[c], IsStatus)) = Len(SelectSeq(cliOut[c], IsStatus))
         /\ cbCalls'[c] = cbCalls[c]
         /\ (ClientError(c) \/ BackendClose(c)) => (cliEnded'[c] /\ bkEnded'[c])
    ]_vars

\* C9 (backend dial failure): when the dial fails and a 503 callback is set,
\* the callback is called once with (client socket, host) and the proxy
\* neither writes to nor ends the client socket; with no callback the proxy
\* ends the client socket with the 503 status line, which is all the client
\* gets when nothing was written or ended before.  No tracker record exists
\* for the connection, then or later.
DialFailed(c) == ~piped[c] /\ bk[c] \in {"errored", "closed"}

Taken(before, after) == SubSeq(before, 1, Len(before) - Len(after))

IsRaw(x) == x.k \notin {"HEAD", "STATUS"}

\* What the parser events of a chunk stand for on the wire: the serialized
\* head for a 'headers' event, chunk[offset .. offset+length] for a 'body'
\* event.
RECURSIVE WireOf(_, _, _)
WireOf(type, evs, chunk) ==
  IF evs = << >> THEN << >>
  ELSE LET e == Head(evs)
       IN  (IF e.t = "headers"
            THEN <<_makeBufferFromHttpMessage(interceptorMethod(type, e.m))>>
            ELSE SubSeq(chunk, e.offset + 1, e.offset + e.length))
           \o WireOf(type, Tail(evs), chunk)

Framed(type, ps, bytes) == WireOf(type, Execute(ps, bytes, 1, << >>).evs, bytes)
ParsesOk(ps, bytes) == ~Execute(ps, bytes, 1, << >>).ps.err

\* C3 (upgrade latching): once a 101 head has latched the connection out of
\* http, neither parser stream holds a buffered chunk, no parser is fed, and
\* every chunk in either direction is written through unchanged.
C3_UpgradeLatch ==
  [][\A c \in Clients :
       (piped[c] /\ protocol[c] # "http") =>
         /\ chunks[c] = NoChunks /\ chunks'[c] = NoChunks
         /\ prs'[c] = prs[c]
         /\ (cin' # cin /\ ~bkEnded[c]) => bkIn'[c] = bkIn[c] \o Taken(cin, cin')
         /\ (bin' # bin /\ ~cliEnded[c]) => cliOut'[c] = cliOut[c] \o Taken(bin, bin')
    ]_vars

\* C4 (body bytes in framed mode): for a chunk handled in framed mode the
\* body bytes written downstream are exactly chunk[offset .. offset+length]
\* of its body events, in order.
C4_BodyBytes ==
  [][\A c \in Clients :
       (piped[c] /\ protocol[c] = "http") =>
         /\ (bin' # bin /\ ~cliEnded[c]
               /\ ParsesOk(prs[c]["response"], Taken(bin, bin'))) =>
              SelectSeq(SubSeq(cliOut'[c], Len(cliOut[c]) + 1, Len(cliOut'[c])), IsRaw)
                = SelectSeq(Framed("response", prs[c]["response"], Taken(bin, bin')), IsRaw)
         /\ (cin' # cin /\ ~bkEnded[c]
               /\ ParsesOk(prs[c]["request"], Taken(cin, cin'))) =>
              SelectSeq(SubSeq(bkIn'[c], Len(bkIn[c]) + 1, Len(bkIn'[c])), IsRaw)
                = SelectSeq(Framed("request", prs[c]["request"], Taken(cin, cin')), IsRaw)
    ]_vars

\* C5 (flush): at end of input a parser stream in framed mode writes exactly
\* the bytes of the head its parser has not completed, and nothing when
\* there are none.
C5_FlushTail ==
  [][\A c \in Clients :
       (piped[c] /\ protocol[c] = "http") =>
         /\ (bkFin'[c] /\ ~bkFin[c] /\ ~cliEnded[c] /\ ~prs[c]["response"].err) =>
              cliOut'[c] = cliOut[c] \o prs[c]["response"].pend
         /\ (cstate[c] = "open" /\ cstate'[c] = "fin" /\ ~bkEnded[c]
               /\ ~prs[c]["request"].err) =>
              bkIn'[c] = bkIn[c] \o prs[c]["request"].pend
    ]_vars

\* C10 (client-to-backend order): while the client is sending over a framed
\* pipeline, the backend has received the head of the first request followed
\* by everything the client sent after its first chunk that is framed so
\* far, in order, whether it was sent before or after the connect.
C10_ClientToBackend ==
  \A c \in Clients :
    (piped[c] /\ cstate[c] = "open" /\ protocol[c] = "http" /\ ~bkEnded[c]
       /\ ParsesOk(NewParser, sent[c])) =>
      bkIn[c] = <<_makeBufferFromHttpMessage(message[c])>>
                  \o Framed("request", NewParser, sent[c])

\* --------------------------------------------- claims on the exit paths
Is(x, nr) == x.k = "STATUS" /\ x.s = nr
HasRecord(c) == InFlat(c) \/ InHost(c) \/ symId[c] # 0
\* The first request of c has been parsed.
Parsed(c) == message[c].p > 0

\* C11 (client socket closure on every exit path): a client socket whose
\* first chunk has been handled without a dial being started has been ended
\* by the proxy, whatever the chunk held; so has one whose dial failed
\* with no callback set, and one whose pipeline has been torn down.  After
\* these steps no handler of the proxy is left to end the socket.
C11_ClientClosure ==
  \A c \in Clients :
    /\ (phase[c] \in {"refused", "fed"} /\ bk[c] = "none") => cliEnded[c]
    /\ (DialFailed(c) /\ cbCalls[c] = << >>) => cliEnded[c]
    /\ torn[c] => cliEnded[c]

\* C12 (backend socket closure): for a backend socket that was dialed
\* successfully, once its client socket has closed or errored, or the
\* backend has errored or closed, a close of the backend socket has been
\* initiated (end() was called or the socket was destroyed).  A forced
\* disconnect ends the client socket only; the backend follows when the
\* client closes.
C12_BackendClosure ==
  \A c \in Clients :
    (piped[c] /\ (cstate[c] \in {"fin", "error"} \/ bk[c] \in {"errored", "closed"})) =>
      (bkEnded[c] \/ bk[c] = "errored")

\* C13 (atomic reconfiguration): setConfig returns a status string; when the
\* construction of the route table fails it leaves the stored configuration
\* and the route table as they were, otherwise it stores both, so that the
\* route table is always the one built from the stored configuration.
C13_AtomicReconfig ==
  [][/\ \A cfg \in Configs \cup BadConfigs :
          SetConfig(cfg) =>
            IF Throws(cfg)
            THEN setRet' = "ERROR" /\ config' = config /\ routes' = routes
            ELSE setRet' = "OK" /\ config' = cfg /\ routes' = _generateRoutesMap(cfg)
     /\ ~Throws(config') /\ routes' = _generateRoutesMap(config')
    ]_vars

\* C14 (inactive server): a socket accepted while active is false gets
\* exactly the 503 status line and is ended; afterwards nothing more is
\* written to it, no request of it is parsed or routed, no backend is
\* dialed and no tracker record exists for it.
C14_InactiveServer ==
  [][\A c \in Clients :
       /\ (cstate[c] = "none" /\ cstate'[c] # "none" /\ ~active) =>
            /\ phase'[c] = "refused"
            /\ Len(cliOut'[c]) = 1 /\ Is(cliOut'[c][1], 503)
            /\ cliEnded'[c]
       /\ phase[c] = "refused" =>
            /\ phase'[c] = "refused"
            /\ cliOut'[c] = cliOut[c] /\ cliEnded'[c]
            /\ ~Parsed(c)' /\ reqHost'[c] = "" /\ prs'[c] = NewParsers
            /\ bk'[c] = "none" /\ ~piped'[c]
            /\ ~HasRecord(c)' /\ \A i \in DOMAIN sockets' : sockets'[i] # c
    ]_vars

\* C14 witness: a socket refused while the server was inactive, the server
\* started afterwards.
C14_Witness ==
  \E c \in Clients :
    /\ phase[c] = "refused" /\ active
    /\ cliOut[c] = <<_httpResponse(503)>> /\ cliEnded[c]

\* The default resolver finds neither the hostname of m nor the wildcard.
NoneFor(m) == SplitHost(m.hdr) \notin DOMAIN routes /\ "*" \notin DOMAIN routes
\* The first request of c was parsed and no dial was started for it.
Unrouted(c) == phase[c] = "fed" /\ Parsed(c) /\ bk[c] = "none"

\* C15 (no matching route): when the resolver returns none for the first
\* request the client gets exactly the 404 status line and is ended, also
\* when the chunk goes on with bytes the parser rejects; no backend is
\* dialed and no tracker record is created, then or later.
C15_NoRoute ==
  [][\A c \in Clients :
       /\ (phase[c] = "await" /\ phase'[c] = "fed" /\ Parsed(c)' /\ NoneFor(message'[c])) =>
            /\ Len(cliOut'[c]) = 1 /\ Is(cliOut'[c][1], 404)
            /\ cliEnded'[c]
            /\ bk'[c] = "none"
       /\ Unrouted(c) =>
            /\ Unrouted(c)'
            /\ cliOut'[c] = cliOut[c] /\ cliEnded'[c]
            /\ ~piped'[c]
            /\ ~HasRecord(c)' /\ \A i \in DOMAIN sockets' : sockets'[i] # c
    ]_vars

\* C15 witness: a first request for a host without route, answered 404,
\* whose client has closed afterwards.
C15_Witness ==
  \E c \in Clients :
    /\ Unrouted(c) /\ reqHost[c] = "c.example" /\ cstate[c] = "fin"
    /\ cliOut[c] = <<_httpResponse(404)>> /\ cliEnded[c]

\* The proxy has written the 400 status line to c.
Got400(c) == \E i \in DOMAIN cliOut[c] : Is(cliOut[c][i], 400)

\* C16 (malformed first request): when the parser reports an error while
\* the first chunk is fed, the client gets the 400 status line (unless the
\* 404 of a request without route went out before it) and is ended, and no
\* pipeline is installed and no tracker record is created for it, then or
\* later.
C16_MalformedFirst ==
  [][\A c \in Clients :
       /\ \A chunk \in FirstChunks :
            (FirstChunk(c, chunk) /\ ~ParsesOk(NewParser, chunk)) =>
              (cliEnded'[c] /\ (Got400(c)' \/ Unrouted(c)'))
       /\ Got400(c) =>
            /\ Got400(c)' /\ cliEnded'[c]
            /\ ~piped'[c]
            /\ ~HasRecord(c)' /\ \A i \in DOMAIN sockets' : sockets'[i] # c
    ]_vars

\* The endpoint the default resolver is to return for the host header v in
\* the route table r.
Expected(r, v) ==
  IF SplitHost(v) \in DOMAIN r THEN r[SplitHost(v)]
  ELSE IF "*" \in DOMAIN r THEN r["*"]
  ELSE NoRoute

\* C17 (default resolver): for every parsed first request and every route
\* table the resolver returns, without failing, the endpoint of the hostname
\* of the host header, else the endpoint of '*', else none: the dial goes to
\* that endpoint, or no dial is started; the server and the other
\* connections live on.
C17_DefaultResolver ==
  [][\A c \in Clients :
       (phase[c] = "await" /\ phase'[c] = "fed" /\ Parsed(c)') =>
         /\ ~crashed'
         /\ LET ep == Expected(routes, message'[c].hdr)
            IN  IF ep = NoRoute THEN bk'[c] = "none"
                ELSE bk'[c] = "dialing" /\ hostHeader'[c] = ep.host
    ]_vars

\* C18 (header round trip): with no interceptor registered the header lines
\* of the serialized head are the header lines of the input head, one for
\* every occurrence, in input order, the names in lower case and the values
\* as they came.
C18_HeaderRoundTrip ==
  headLines # << >> =>
    headLines = [i \in DOMAIN rawHeaders |->
                   toLowerCase(rawHeaders[i].name) \o ": " \o rawHeaders[i].value]

\* ---------------------------------------------- claims on the interceptors
IsHead(x) == x.k = "HEAD"
IsPrefix(s1, s2) == Len(s1) <= Len(s2) /\ SubSeq(s2, 1, Len(s1)) = s1
\* What a step appended to an output.
Added(before, after) == SubSeq(after, Len(before) + 1, Len(after))
\* The stream positions of the heads of a sequence of serialized heads, and
\* of the messages of a sequence of 'headers' events.
HeadPos(hs) == [i \in DOMAIN hs |-> hs[i].p]
EventPos(evs) == [i \in DOMAIN evs |-> evs[i].m.p]

BodyOf(out, i, j) ==
  /\ IsHead(out[j]) /\ out[i].k = "b"
  /\ out[j].p < out[i].p /\ out[i].p <= out[j].p + out[j].n

\* C20 (head replacement atomicity): the serialized head of a framed
\* message is written as one unit, and no body byte of that message is
\* written before it.
C20_HeadBeforeBody ==
  \A c \in Clients :
    /\ \A i, j \in DOMAIN bkIn[c] : BodyOf(bkIn[c], i, j) => j < i
    /\ \A i, j \in DOMAIN cliOut[c] : BodyOf(cliOut[c], i, j) => j < i

\* ------------------------------------------------ claims on stop and outcomes
\* C21 (stop leaves existing flows alone): a step that takes active from
\* true to false changes nothing else: tracker, route table, configuration,
\* callbacks, interceptor lists and the sockets, parsers and pipelines of
\* all connections stay as they are.  A socket is refused only in the step
\* that accepts it, and exactly when active is false in that step, so
\* connections accepted before the stop are never refused and accepts after
\* a later start are serviced.
C21_StopFrame ==
  [][/\ (active /\ ~active') =>
          /\ UNCHANGED <<id, sockets, host_headers, routes, config, callbacks, ret>>
          /\ UNCHANGED <<cliVars, bkVars, connVars, flowVars, extVars>>
     /\ \A c \in Clients :
          /\ (cstate[c] = "none" /\ cstate'[c] # "none") =>
               (phase'[c] = "refused" <=> ~active)
          /\ (cstate[c] # "none" /\ phase[c] # "refused") => phase'[c] # "refused"
    ]_vars

\* C21 witness: the server is stopped while a connection accepted before
\* the stop has its pipeline installed and both its sockets open.
C21_Witness ==
  /\ ~active
  /\ \E c \in Clients :
       /\ piped[c] /\ InFlat(c) /\ bk[c] = "connected"
       /\ ~cliEnded[c] /\ ~bkEnded[c]

\* The proxy has written the status line nr to c.
Got(c, nr) == \E i \in DOMAIN cliOut[c] : Is(cliOut[c][i], nr)
\* The outcomes connection c has had so far.
Outcomes(c) ==
  {o \in {"400", "404", "503", "pipeline"} :
     \/ o = "400" /\ Got(c, 400)
     \/ o = "404" /\ Got(c, 404)
     \/ o = "503" /\ (Got(c, 503) \/ cbCalls[c] # << >>)
     \/ o = "pipeline" /\ piped[c]}

\* C22 (single outcome per connection): a connection has at most one of the
\* outcomes 400, 404, 503 (status line or callback) and installed pipeline,
\* each status line at most once and the callback at most once; a client
\* that was written an error status line has no tracker record and no
\* pipeline.
C22_SingleOutcome ==
  \A c \in Clients :
    /\ Cardinality(Outcomes(c)) <= 1
    /\ Len(SelectSeq(cliOut[c], IsStatus)) <= 1
    /\ Len(cbCalls[c]) <= 1
    /\ (\E i \in DOMAIN cliOut[c] : IsStatus(cliOut[c][i])) =>
         (~piped[c] /\ ~HasRecord(c))

====
